---- MODULE Spec2Model ----
(***************************************************************************)
(* Wav2Vec2 pretraining with adversarial attacks (robust_speech):          *)
(*   - AdvWav2Vec2ForPreTraining.forward, the contrastive + diversity loss *)
(*     with an optional precomputed quantized representation;              *)
(*   - AdvHuggingFaceWav2Vec2Pretrain.forward, which draws the mask and    *)
(*     the negatives and calls the model;                                  *)
(*   - W2VPretrain, the training procedure (stages, accumulators,          *)
(*     gradient accumulation, stage end).                                  *)
(*                                                                         *)
(* Number representation.  Feature vectors have entries in {-1, 1}, so     *)
(* every vector has the same norm and the cosine similarity of two vectors *)
(* is their dot product divided by hidden_size.  A logit is held as that   *)
(* dot product; contrastive_logits_temperature is taken so that            *)
(* e^(2 / (hidden_size * temperature)) = 2, which makes e^logit a power of *)
(* two.  A cross-entropy value x is held as the reduced fraction <<p, q>>  *)
(* with e^x = p / q (so x = 0 is <<1, 1>>, and a sum of cross-entropies is *)
(* a product of fractions).  Every other real number is a reduced fraction *)
(* <<n, d>>, d > 0, and NaN is <<0, 0>>.                                   *)
(***************************************************************************)
EXTENDS Integers, Naturals, Sequences, FiniteSets, TLC

VARIABLES
    args,       \* arguments of the latest forward call
    out,        \* what the latest forward call returned
    prior,      \* the call with quantized_representation=None that was captured
    mode,       \* how the latest forward call was made ("none" before any)
    wavs,       \* the waveform batch the wrapper is called on
    wav2vec2_out,   \* self.modules.wav2vec2 on the batch: for every draw it
                    \* can make, the call on the model and what it returns
    acc_metric,             \* self.acc_metric
    adv_acc_metric,         \* self.adv_acc_metric
    adv_acc_metric_target,  \* self.adv_acc_metric_target
    train_stats,            \* self.train_stats
    pushed,     \* history: the accuracies pushed since the last VALID/TEST start
    last,       \* the latest call on the training procedure and what it did
    step,                   \* self.step, the micro-batch counter
    n_steps,                \* self.hparams.noam_annealing.n_steps
    opt_steps,              \* parameter updates made by the optimizer
    grad_acc,               \* backward passes accumulated in the gradients
    calls,      \* the calls the latest fit_batch made on its collaborators
    auto_mix_prec,          \* self.auto_mix_prec
    gradient_accumulation,  \* self.hparams.gradient_accumulation
    asnr_filter,            \* the ASNRWiener object: high_freq, gaussian_sigma
    x_tensor,               \* the tensor x the filter is called on
    filtered_output,        \* what asnr returns for each item of the batch
    filter_call             \* the call of the filter: x as passed, what it did

fwdVars == <<args, out, prior, mode, wavs>>
metricVars == <<acc_metric, adv_acc_metric, adv_acc_metric_target>>
fitVars == <<step, n_steps, opt_steps, grad_acc, calls, auto_mix_prec,
             gradient_accumulation>>
brainVars == <<wav2vec2_out, metricVars, train_stats, pushed, last, fitVars>>
filterVars == <<asnr_filter, x_tensor, filtered_output, filter_call>>
vars == <<fwdVars, brainVars, filterVars>>

-----------------------------------------------------------------------------
(* Bounds                                                                  *)

batch_size == 2
sequence_length == 2
hidden_size == 2
NumWavVals == 2
MaxWavId == 2
MaxMaskSeed == 15
MaxNegSeed == 7
MaxDrop == 1
MaxGumbel == 1
MaxSampledMask == 3
MaxSampledNeg == 0
MaxEvalDraw == 1
MaxPushes == 2
MaxEpoch == 1
MaxStep == 6
MaxAccumulation == 3
num_samples == 2

(* Configuration constants                                                 *)

num_negatives == 1
num_codevectors_per_group == 2
num_codevector_groups == 1
IgnoreIndex == -100

Batch == 0 .. (batch_size - 1)
Time == 0 .. (sequence_length - 1)
Hid == 1 .. hidden_size
Negs == 0 .. (num_negatives - 1)
Pos == Batch \X Time

-----------------------------------------------------------------------------
(* Arithmetic                                                              *)

RECURSIVE Pow(_, _)
Pow(b, e) == IF e = 0 THEN 1 ELSE b * Pow(b, e - 1)

RECURSIVE GCD(_, _)
GCD(a, b) == IF b = 0 THEN a ELSE GCD(b, a % b)

Abs(x) == IF x < 0 THEN -x ELSE x

Bit(n, i) == (n \div Pow(2, i)) % 2
Digit(n, base, i) == (n \div Pow(base, i)) % base

NaN == <<0, 0>>
IsNaN(x) == x[2] = 0

Frac(n, d) ==
    IF d = 0 THEN NaN
    ELSE LET g == GCD(Abs(n), Abs(d))
             s == IF d < 0 THEN -1 ELSE 1
         IN  <<(s * n) \div g, (s * d) \div g>>

Int2F(n) == <<n, 1>>
FAdd(x, y) == IF IsNaN(x) \/ IsNaN(y) THEN NaN
              ELSE Frac(x[1] * y[2] + y[1] * x[2], x[2] * y[2])
FSub(x, y) == IF IsNaN(x) \/ IsNaN(y) THEN NaN
              ELSE Frac(x[1] * y[2] - y[1] * x[2], x[2] * y[2])
FMul(x, y) == IF IsNaN(x) \/ IsNaN(y) THEN NaN
              ELSE Frac(x[1] * y[1], x[2] * y[2])
FDiv(x, y) == IF IsNaN(x) \/ IsNaN(y) \/ y[1] = 0 THEN NaN
              ELSE Frac(x[1] * y[2], x[2] * y[1])
FLess(x, y) == ~IsNaN(x) /\ ~IsNaN(y) /\ x[1] * y[2] < y[1] * x[2]

-----------------------------------------------------------------------------
(* Tensors: [batch][time] -> value, row-major flattening                   *)

FlatIndex(b, t) == b * sequence_length + t
MaskSum(mask_time_indices) ==
    Cardinality({p \in Pos : mask_time_indices[p[1]][p[2]] = 1})
Dot(u, v) ==
    LET RECURSIVE S(_)
        S(h) == IF h = 0 THEN 0 ELSE u[h] * v[h] + S(h - 1)
    IN  S(hidden_size)

-----------------------------------------------------------------------------
(* The wav2vec2 base model, the projections and the quantizer that forward *)
(* calls.  They live in the transformers library; what is kept of them is  *)
(* what forward relies on: which inputs each output depends on.            *)

\* one frame per sample: the features extracted from a sample value
FeatureVec(x) == [h \in Hid |-> IF Bit(x + 1, h - 1) = 1 THEN -1 ELSE 1]
masked_spec_embed == [h \in Hid |-> -1]
NegVec(v) == [h \in Hid |-> -v[h]]

\* self.wav2vec2(input_values, mask_time_indices=...): outputs[0] is the
\* context network's output (masked steps replaced by the mask embedding,
\* dropout drawn from `drop`), outputs[1] the extracted features
wav2vec2(input_values, mask_time_indices, drop) ==
    [hidden |->
        [b \in Batch |-> [t \in Time |->
            IF mask_time_indices[b][t] = 1 THEN masked_spec_embed
            ELSE IF Bit(drop, FlatIndex(b, t)) = 1
                 THEN NegVec(FeatureVec(input_values[b][t]))
                 ELSE FeatureVec(input_values[b][t])]],
     extract |->
        [b \in Batch |-> [t \in Time |-> FeatureVec(input_values[b][t])]]]

\* linear layers with fixed weights: a coordinate reversal and a negation
project_hid(x) ==
    [b \in Batch |-> [t \in Time |-> [h \in Hid |-> x[b][t][hidden_size + 1 - h]]]]
project_q(x) ==
    [b \in Batch |-> [t \in Time |-> NegVec(x[b][t])]]

num_codevectors == num_codevectors_per_group * num_codevector_groups
Codebook(i) == [h \in Hid |-> IF Bit(i, h - 1) = 1 THEN -1 ELSE 1]
CodeOf(v, g) ==
    LET RECURSIVE S(_)
        S(h) == IF h = 0 THEN 0
                ELSE (IF v[h] = -1 THEN Pow(2, h - 1) ELSE 0) + S(h - 1)
    IN  (S(hidden_size) + g) % num_codevectors

\* self.quantizer(extract_features, mask_time_indices=...) returns a
\* codevector per step (Gumbel sampling drawn from `gumbel`) ...
QuantizerCodes(extract_features, gumbel) ==
    [b \in Batch |-> [t \in Time |->
        CodeOf(extract_features[b][t], Bit(gumbel, FlatIndex(b, t)))]]
QuantizerFeatures(extract_features, gumbel) ==
    [b \in Batch |-> [t \in Time |->
        Codebook(CodeOf(extract_features[b][t], Bit(gumbel, FlatIndex(b, t))))]]
\* ... and the perplexity of the codes used at the masked steps (0/0 when
\* no step is masked)
QuantizerPerplexity(extract_features, mask_time_indices, gumbel) ==
    LET code == QuantizerCodes(extract_features, gumbel)
        used == {code[p[1]][p[2]] :
                    p \in {q \in Pos : mask_time_indices[q[1]][q[2]] = 1}}
    IN  IF used = {} THEN NaN ELSE Int2F(Cardinality(used))

-----------------------------------------------------------------------------
(* AdvWav2Vec2ForPreTraining.forward, steps 3 to 8                         *)

NegInf == -(hidden_size + 2)

\* quantized_features.view(-1, hidden_size)[sampled_negative_indices.view(-1)]
\*     .view(batch_size, sequence_length, -1, hidden_size).permute(2, 0, 1, 3)
negative_quantized_features(quantized_features, sampled_negative_indices) ==
    LET table == [i \in 0 .. (batch_size * sequence_length - 1) |->
                    quantized_features[i \div sequence_length][i % sequence_length]]
    IN  [k \in Negs |-> [b \in Batch |-> [t \in Time |->
            table[sampled_negative_indices[b][t][k]]]]]

\* compute_contrastive_logits: cosine similarity of the transformer features
\* with [positive, negatives], over the temperature; slot 0 is the positive
compute_contrastive_logits(quantized_features, negatives, transformer_features) ==
    [k \in 0 .. num_negatives |-> [b \in Batch |-> [t \in Time |->
        IF k = 0 THEN Dot(transformer_features[b][t], quantized_features[b][t])
        ELSE Dot(transformer_features[b][t], negatives[k - 1][b][t])]]]

\* variant: .any(-1) in place of .all(-1)
neg_is_pos_any(quantized_features, negatives) ==
    [k \in Negs |-> [b \in Batch |-> [t \in Time |->
        \E h \in Hid : quantized_features[b][t][h] = negatives[k][b][t][h]]]]

\* (quantized_features == negative_quantized_features).all(-1)
neg_is_pos(quantized_features, negatives) ==
    [k \in Negs |-> [b \in Batch |-> [t \in Time |->
        \A h \in Hid : quantized_features[b][t][h] = negatives[k][b][t][h]]]]

\* if neg_is_pos.any(): logits[1:][neg_is_pos] = float("-inf")
MaskNegIsPos(logits, nip) ==
    [k \in 0 .. num_negatives |-> [b \in Batch |-> [t \in Time |->
        IF k >= 1 /\ nip[k - 1][b][t] THEN NegInf ELSE logits[k][b][t]]]]

NumRows == batch_size * sequence_length

\* logits.transpose(0, 2).reshape(-1, logits.size(0)): row t * batch_size + b
FlattenLogits(logits) ==
    [r \in 0 .. (NumRows - 1) |-> [k \in 0 .. num_negatives |->
        logits[k][r % batch_size][r \div batch_size]]]

\* variant: the target flattened without .transpose(0, 1)
Target_untransposed(mask_time_indices) ==
    [r \in 0 .. (NumRows - 1) |->
        (1 - mask_time_indices[r \div sequence_length][r % sequence_length])
            * IgnoreIndex]

\* ((1 - mask_time_indices.long()) * -100).transpose(0, 1).flatten()
Target(mask_time_indices) ==
    [r \in 0 .. (NumRows - 1) |->
        (1 - mask_time_indices[r % batch_size][r \div batch_size]) * IgnoreIndex]

\* e^logit, scaled by 2^(hidden_size / 2)
ExpLogit(l) == IF l = NegInf THEN 0 ELSE Pow(2, (l + hidden_size) \div 2)

ZeroLoss == <<1, 1>>

\* the cross-entropy of one row against class c, as e^x
RowCrossEntropy(row, c) ==
    LET RECURSIVE S(_)
        S(k) == IF k < 0 THEN 0 ELSE ExpLogit(row[k]) + S(k - 1)
    IN  Frac(S(num_negatives), ExpLogit(row[c]))

\* torch.nn.functional.cross_entropy(logits, target, reduction="sum"):
\* rows whose target is the ignore index are left out of the sum
cross_entropy(rows, target) ==
    LET RECURSIVE S(_)
        S(r) == IF r < 0 THEN ZeroLoss
                ELSE IF target[r] = IgnoreIndex THEN S(r - 1)
                ELSE FMul(RowCrossEntropy(rows[r], target[r]), S(r - 1))
    IN  S(NumRows - 1)

\* variant: the perplexity itself, not its distance to num_codevectors
DiversityLoss_perplexity(codevector_perplexity, mask_time_indices) ==
    FMul(FDiv(codevector_perplexity, Int2F(num_codevectors)),
         Int2F(MaskSum(mask_time_indices)))

\* ((num_codevectors - codevector_perplexity) / num_codevectors)
\*     * mask_time_indices.sum()
DiversityLoss(codevector_perplexity, mask_time_indices) ==
    FMul(FDiv(FSub(Int2F(num_codevectors), codevector_perplexity),
              Int2F(num_codevectors)),
         Int2F(MaskSum(mask_time_indices)))

diversity_loss_weight == <<1, 10>>

\* a loss is [ce |-> cross-entropy part, lin |-> the rest]: their sum
ContrastiveOnly(ce) == [ce |-> ce, lin |-> Int2F(0)]
\* loss = contrastive_loss + diversity_loss_weight * diversity_loss
CompositeLoss(ce, diversity_loss) ==
    [ce |-> ce, lin |-> FMul(diversity_loss_weight, diversity_loss)]
NoLoss == [ce |-> NaN, lin |-> NaN]

-----------------------------------------------------------------------------
(* AdvWav2Vec2ForPreTraining.forward.  A call `a` is a record of the       *)
(* arguments and of the random draws of the stochastic layers:             *)
(*   input_values, mask_time_indices, sampled_negative_indices (used only  *)
(*   when has_negatives), quantized_representation (used only when         *)
(*   has_qr), drop, gumbel.                                                *)

\* transformer_features = self.project_hid(outputs[0])
TransformerFeatures(a) ==
    project_hid(wav2vec2(a.input_values, a.mask_time_indices, a.drop).hidden)

\* variant: the supplied quantized features are projected once more
QuantizedFeatures_reprojected(a) ==
    IF a.has_qr THEN project_q(a.quantized_representation[1])
    ELSE project_q(QuantizerFeatures(
             wav2vec2(a.input_values, a.mask_time_indices, a.drop).extract,
             a.gumbel))

\* quantized_features: the supplied one, or the quantizer's, projected
QuantizedFeatures(a) ==
    IF a.has_qr THEN a.quantized_representation[1]
    ELSE project_q(QuantizerFeatures(
             wav2vec2(a.input_values, a.mask_time_indices, a.drop).extract,
             a.gumbel))

\* codevector_perplexity: the supplied one, or the quantizer's
CodevectorPerplexity(a) ==
    IF a.has_qr THEN a.quantized_representation[2]
    ELSE QuantizerPerplexity(
             wav2vec2(a.input_values, a.mask_time_indices, a.drop).extract,
             a.mask_time_indices, a.gumbel)

\* the logits of step 4, before the masking of step 5
RawLogits(a) ==
    LET q == QuantizedFeatures(a)
    IN  compute_contrastive_logits(
            q, negative_quantized_features(q, a.sampled_negative_indices),
            TransformerFeatures(a))

\* the logits after step 5
MaskedLogits(a) ==
    LET q == QuantizedFeatures(a)
    IN  MaskNegIsPos(
            RawLogits(a),
            neg_is_pos(q, negative_quantized_features(q, a.sampled_negative_indices)))

ContrastiveLoss(a) ==
    cross_entropy(FlattenLogits(MaskedLogits(a)), Target(a.mask_time_indices))

forward(a) ==
    LET contrastive_loss == ContrastiveLoss(a)
        diversity_loss == DiversityLoss(CodevectorPerplexity(a), a.mask_time_indices)
    IN  [has_loss |-> a.has_negatives,
         loss |-> IF a.has_negatives
                  THEN CompositeLoss(contrastive_loss, diversity_loss) ELSE NoLoss,
         contrastive_loss |-> IF a.has_negatives THEN contrastive_loss ELSE NaN,
         diversity_loss |-> IF a.has_negatives THEN diversity_loss ELSE NaN,
         projected_states |-> TransformerFeatures(a),
         projected_quantized_states |-> QuantizedFeatures(a),
         codevector_perplexity |-> CodevectorPerplexity(a)]

-----------------------------------------------------------------------------
(* AdvHuggingFaceWav2Vec2Pretrain.forward                                  *)

\* a waveform batch, by its number
Wav(id) == [b \in Batch |-> [t \in Time |-> Digit(id, NumWavVals, FlatIndex(b, t))]]

Sign(x) == IF x > 0 THEN 1 ELSE IF x < 0 THEN -1 ELSE 0

\* F.layer_norm(wav, wav.shape): every sample centred on the batch mean
\* (kept: the sign of the centred sample; a constant batch becomes zero)
layer_norm(wav) ==
    LET RECURSIVE S(_)
        S(i) == IF i < 0 THEN 0
                ELSE wav[i \div sequence_length][i % sequence_length] + S(i - 1)
        total == S(NumRows - 1)
    IN  [b \in Batch |-> [t \in Time |-> Sign(NumRows * wav[b][t] - total)]]

normalize_wav == TRUE

\* _compute_mask_indices((batch_size, sequence_length), ...): a random mask
compute_mask_indices(seed) ==
    [b \in Batch |-> [t \in Time |-> Bit(seed, FlatIndex(b, t))]]

\* _sample_negative_indices(..., mask_time_indices=full_sentence_indices):
\* for every step, num_negatives random other steps of the same batch item
sample_negative_indices(seed) ==
    [b \in Batch |-> [t \in Time |-> [k \in Negs |->
        LET j == Digit(seed, sequence_length - 1,
                       FlatIndex(b, t) * num_negatives + k)
        IN  b * sequence_length + (IF j >= t THEN j + 1 ELSE j)]]]

NoQR == <<[b \in Batch |-> [t \in Time |-> [h \in Hid |-> 0]]], NaN>>

\* the call the wrapper makes on the model: d holds its random draws
WrapperCall(wav, has_qr, qr, d) ==
    [input_values |-> IF normalize_wav THEN layer_norm(wav) ELSE wav,
     mask_time_indices |-> compute_mask_indices(d.mask),
     sampled_negative_indices |-> sample_negative_indices(d.neg),
     has_negatives |-> TRUE,
     has_qr |-> has_qr,
     quantized_representation |-> IF has_qr THEN qr ELSE NoQR,
     drop |-> d.drop,
     gumbel |-> d.gumbel]

Draws == [mask : 0 .. MaxMaskSeed, neg : 0 .. MaxNegSeed,
          drop : 0 .. MaxDrop, gumbel : 0 .. MaxGumbel]

-----------------------------------------------------------------------------
(* W2VPretrain: the state of the training procedure                        *)

Stages == {"TRAIN", "VALID", "TEST", "ATTACK"}

\* an accumulator attribute: absent until on_stage_start creates the list
Missing == [set |-> FALSE, vals |-> <<>>]
EmptyList == [set |-> TRUE, vals |-> <<>>]

\* an optional argument
None == [given |-> FALSE, v |-> NaN]
Some(x) == [given |-> TRUE, v |-> x]

\* self.train_stats: absent until on_stage_end(TRAIN) stores it
NoStats == [set |-> FALSE, stats |-> <<>>]

NothingPushed == [started |-> FALSE, acc |-> <<>>, adv |-> <<>>, target |-> <<>>]

NoOp == [op |-> "none", stage |-> "none", adv |-> FALSE, targeted |-> FALSE,
         has_qr |-> FALSE, draw |-> 0, given_adv |-> FALSE, given_target |-> FALSE,
         raised |-> "none", ret |-> NoLoss, logged |-> <<>>, saved |-> <<>>]

\* the training procedure as constructed
InitProcedure ==
    /\ wav2vec2_out = <<>>
    /\ acc_metric = Missing
    /\ adv_acc_metric = Missing
    /\ adv_acc_metric_target = Missing
    /\ train_stats = NoStats
    /\ pushed = NothingPushed
    /\ last = NoOp
    /\ step = 0
    /\ n_steps = 0
    /\ opt_steps = 0
    /\ grad_acc = 0
    /\ calls = <<>>

\* the filter's call record before any call
NoFilterCall == [done |-> FALSE, x |-> <<>>, raised |-> "none", ret |-> <<>>]

\* no filter in use
InitNoFilter ==
    /\ asnr_filter = [high_freq |-> TRUE, gaussian_sigma |-> 0]
    /\ x_tensor = <<>>
    /\ filtered_output = <<>>
    /\ filter_call = NoFilterCall

-----------------------------------------------------------------------------
(* Calls of the model's forward with arguments of the caller's choice      *)

\* an arbitrary index tensor into the flattened (batch x time) table
AnyNegativeIndices(seed) ==
    [b \in Batch |-> [t \in Time |-> [k \in Negs |->
        Digit(seed, NumRows, FlatIndex(b, t) * num_negatives + k)]]]

NoCall ==
    [input_values |-> Wav(0),
     mask_time_indices |-> compute_mask_indices(0),
     sampled_negative_indices |-> AnyNegativeIndices(0),
     has_negatives |-> FALSE,
     has_qr |-> FALSE,
     quantized_representation |-> NoQR,
     drop |-> 0,
     gumbel |-> 0]

\* nothing returned, nothing captured
NoOut == <<>>
NoPrior == [call |-> <<>>, out |-> <<>>, set |-> FALSE]

\* forward(input_values, mask_time_indices, sampled_negative_indices,
\*         quantized_representation) with any mask, any index tensor or
\* none, any supplied pair (with statistic p) or none
DirectCall(id, d, has_negatives, has_qr, p) ==
    [input_values |-> Wav(id),
     mask_time_indices |-> compute_mask_indices(d.mask),
     sampled_negative_indices |-> AnyNegativeIndices(d.neg),
     has_negatives |-> has_negatives,
     has_qr |-> has_qr,
     quantized_representation |->
         IF has_qr
         THEN <<project_q(QuantizerFeatures(
                    wav2vec2(Wav(id), compute_mask_indices(d.mask), d.drop).extract,
                    d.gumbel)),
                Int2F(p)>>
         ELSE NoQR,
     drop |-> d.drop,
     gumbel |-> d.gumbel]

DirectCalls ==
    {DirectCall(c[1], c[2], c[3], c[4], c[5]) :
        c \in {x \in (0 .. MaxWavId) \X Draws \X BOOLEAN \X BOOLEAN
                        \X (0 .. num_codevectors) :
                  /\ x[4] \/ x[5] = 0
                  /\ x[3] \/ (x[2].neg = 0 /\ ~x[4])}}

\* the arguments of the call are chosen; the call has not been made
InitLoss ==
    /\ InitNoFilter
    /\ args \in DirectCalls
    /\ out = NoOut
    /\ prior = NoPrior
    /\ mode = "none"
    /\ wavs = Wav(0)
    /\ InitProcedure
    /\ auto_mix_prec = FALSE
    /\ gradient_accumulation = 1

DirectForward ==
    /\ mode = "none"
    /\ out' = forward(args)
    /\ mode' = "direct"
    /\ UNCHANGED <<args, prior, wavs, brainVars, filterVars>>

NextLoss == DirectForward
SpecLoss == InitLoss /\ [][NextLoss]_vars

-----------------------------------------------------------------------------
(* Calls of the wrapper: one with quantized_representation=None, whose     *)
(* quantized representation is captured, then one that supplies it         *)

\* what the wrapper draws on a call: the mask, the negatives, and the
\* draws of the stochastic layers
WrapperDraws == [mask : 0 .. MaxSampledMask, neg : 0 .. MaxSampledNeg,
                 drop : 0 .. MaxDrop, gumbel : 0 .. MaxGumbel]

InitEquiv ==
    /\ InitNoFilter
    /\ wavs \in {Wav(id) : id \in 0 .. MaxWavId}
    /\ args = NoCall
    /\ out = NoOut
    /\ prior = NoPrior
    /\ mode = "none"
    /\ InitProcedure
    /\ auto_mix_prec = FALSE
    /\ gradient_accumulation = 1

\* out, mask = wav2vec2(wav, quantized_representation=None); the caller
\* keeps (quantized_features, codevector_perplexity)
ForwardFresh ==
    /\ mode = "none"
    /\ \E d \in WrapperDraws :
        LET a == WrapperCall(wavs, FALSE, NoQR, d)
        IN  /\ args' = a
            /\ out' = forward(a)
            /\ prior' = [call |-> a, out |-> forward(a), set |-> TRUE]
    /\ mode' = "fresh"
    /\ UNCHANGED <<wavs, brainVars, filterVars>>

\* out, mask = wav2vec2(wav, quantized_representation=precomputed): the
\* quantizer is not run, so no Gumbel noise is drawn
ForwardPrecomputed ==
    /\ mode = "fresh"
    /\ \E d \in {x \in WrapperDraws : x.gumbel = 0} :
        LET a == WrapperCall(wavs, TRUE,
                             <<prior.out.projected_quantized_states,
                               prior.out.codevector_perplexity>>, d)
        IN  /\ args' = a
            /\ out' = forward(a)
    /\ mode' = "precomputed"
    /\ UNCHANGED <<prior, wavs, brainVars, filterVars>>

NextEquiv == ForwardFresh \/ ForwardPrecomputed
SpecEquiv == InitEquiv /\ [][NextEquiv]_vars

-----------------------------------------------------------------------------
(* W2VPretrain.compute_forward and compute_objectives                      *)

\* what one call of self.modules.wav2vec2 on the batch draws, by number: a
\* mask with at least one step, and Gumbel noise
EvalDraw(m) ==
    [mask |-> (2 * (m \div 2) + 1) % Pow(2, NumRows),
     neg |-> 0, drop |-> 0, gumbel |-> m]

\* batch.quantized_representation, when the batch carries one: the pair
\* saved from a call on the same waveforms prior to the attack
SavedQR ==
    LET o == forward(WrapperCall(wavs, FALSE, NoQR, EvalDraw(0)))
    IN  <<o.projected_quantized_states, o.codevector_perplexity>>

\* out, mask = self.modules.wav2vec2(wavs, quantized_representation=...)
\* with the saved pair if hasattr(batch, "quantized_representation")
ModuleCall(has_qr, d) ==
    IF has_qr THEN WrapperCall(wavs, TRUE, SavedQR, d)
    ELSE WrapperCall(wavs, FALSE, NoQR, d)

\* the module on the batch, over the draws of one call
ModuleOutputs ==
    [has_qr \in BOOLEAN |-> [m \in 0 .. MaxEvalDraw |->
        LET a == ModuleCall(has_qr, EvalDraw(m))
        IN  [mask |-> a.mask_time_indices, out |-> forward(a)]]]

\* variant: the composite loss in every stage
SelectedLoss_composite(o, stage) == o.loss

\* loss = out.contrastive_loss if stage == ATTACK else out.loss
SelectedLoss(o, stage) ==
    IF stage = "ATTACK" THEN ContrastiveOnly(o.contrastive_loss) ELSE o.loss

\* compute_forward(batch, stage), given the module's mask and output o:
\* (loss, out, mask) in VALID and TEST, the loss alone in TRAIN and ATTACK
compute_forward(mask, o, stage) ==
    [loss |-> SelectedLoss(o, stage),
     out |-> o,
     mask |-> mask,
     tuple |-> stage # "TRAIN" /\ stage # "ATTACK"]

\* masked_select(cosine_similarity(projected_states,
\*     projected_quantized_states), mask).mean(): 0/0 when nothing is masked
Accuracy(o, mask) ==
    LET RECURSIVE S(_)
        S(i) == IF i < 0 THEN 0
                ELSE LET b == i \div sequence_length
                         t == i % sequence_length
                     IN  (IF mask[b][t] = 1
                          THEN Dot(o.projected_states[b][t],
                                   o.projected_quantized_states[b][t])
                          ELSE 0) + S(i - 1)
    IN  Frac(S(NumRows - 1), hidden_size * MaskSum(mask))

\* variant: the adversarial accumulators exchanged
TargetAccumulator_swapped(adv, targeted) ==
    IF adv THEN (IF targeted THEN "adv" ELSE "target") ELSE "acc"

\* the accumulator compute_objectives appends to
TargetAccumulator(adv, targeted) ==
    IF adv THEN (IF targeted THEN "target" ELSE "adv") ELSE "acc"

Push(m, x) == [m EXCEPT !.vals = Append(@, x)]

\* compute_objectives(predictions, batch, stage, adv, targeted): the loss it
\* returns (or the exception it raises), the accuracy value it computed and
\* the accumulators it leaves
compute_objectives(predictions, stage, adv, targeted) ==
    IF stage = "TRAIN" \/ stage = "ATTACK"
    THEN [raised |-> "none", loss |-> predictions.loss, value |-> NaN,
          acc |-> acc_metric, adv |-> adv_acc_metric,
          target |-> adv_acc_metric_target]
    ELSE LET acc == Accuracy(predictions.out, predictions.mask)
             which == TargetAccumulator(adv, targeted)
             list == IF which = "acc" THEN acc_metric
                     ELSE IF which = "adv" THEN adv_acc_metric
                     ELSE adv_acc_metric_target
         IN  IF ~list.set
             THEN [raised |-> "AttributeError", loss |-> NoLoss, value |-> acc,
                   acc |-> acc_metric, adv |-> adv_acc_metric,
                   target |-> adv_acc_metric_target]
             ELSE [raised |-> "none", loss |-> predictions.loss, value |-> acc,
                   acc |-> IF which = "acc" THEN Push(acc_metric, acc)
                           ELSE acc_metric,
                   adv |-> IF which = "adv" THEN Push(adv_acc_metric, acc)
                           ELSE adv_acc_metric,
                   target |-> IF which = "target"
                              THEN Push(adv_acc_metric_target, acc)
                              ELSE adv_acc_metric_target]

NumPushed ==
    Len(acc_metric.vals) + Len(adv_acc_metric.vals)
        + Len(adv_acc_metric_target.vals)

\* the history of pushes: a value is recorded under the list the caller's
\* marking names, whenever a VALID or TEST call returns
RecordPush(stage, adv, targeted, returned, x) ==
    IF (stage = "VALID" \/ stage = "TEST") /\ returned
    THEN IF ~adv THEN [pushed EXCEPT !.acc = Append(@, x)]
         ELSE IF targeted THEN [pushed EXCEPT !.target = Append(@, x)]
         ELSE [pushed EXCEPT !.adv = Append(@, x)]
    ELSE pushed

\* loss = self.compute_objectives(self.compute_forward(batch, stage), batch,
\*                                stage, adv, targeted)
\* (a batch carries a saved quantized representation only if it was attacked)
EvaluateBatch ==
    /\ NumPushed < MaxPushes
    /\ \E m \in 0 .. MaxEvalDraw, has_qr \in BOOLEAN, stage \in Stages,
          adv \in BOOLEAN, targeted \in BOOLEAN :
        /\ targeted => adv
        /\ stage \in {"TRAIN", "ATTACK"} => ~adv
        /\ has_qr => (adv \/ stage = "ATTACK")
        /\ \E r \in {compute_objectives(
                         compute_forward(wav2vec2_out[has_qr][m].mask,
                                         wav2vec2_out[has_qr][m].out, stage),
                         stage, adv, targeted)} :
            /\ acc_metric' = r.acc
            /\ adv_acc_metric' = r.adv
            /\ adv_acc_metric_target' = r.target
            /\ pushed' = RecordPush(stage, adv, targeted, r.raised = "none",
                                    r.value)
            /\ last' = [NoOp EXCEPT !.op = "compute_objectives",
                                    !.stage = stage,
                                    !.adv = adv,
                                    !.targeted = targeted,
                                    !.has_qr = has_qr,
                                    !.draw = m,
                                    !.raised = r.raised,
                                    !.ret = r.loss]
    /\ UNCHANGED <<filterVars, fwdVars, wav2vec2_out, train_stats, fitVars>>

-----------------------------------------------------------------------------
(* W2VPretrain.on_stage_start and on_stage_end                             *)

\* variant: the lists are re-created at the start of VALID only
ResetsAccumulators_valid(stage) == stage = "VALID"

\* if stage == sb.Stage.VALID or stage == sb.Stage.TEST
ResetsAccumulators(stage) == stage = "VALID" \/ stage = "TEST"

on_stage_start(stage) ==
    /\ IF ResetsAccumulators(stage)
       THEN /\ acc_metric' = EmptyList
            /\ adv_acc_metric' = EmptyList
            /\ adv_acc_metric_target' = EmptyList
       ELSE UNCHANGED metricVars
    /\ pushed' = IF stage \in {"VALID", "TEST"}
                 THEN [NothingPushed EXCEPT !.started = TRUE]
                 ELSE pushed
    /\ last' = [NoOp EXCEPT !.op = "on_stage_start", !.stage = stage]
    /\ UNCHANGED <<filterVars, fwdVars, wav2vec2_out, train_stats, fitVars>>

OnStageStart == \E stage \in Stages : on_stage_start(stage)

\* sum(list): 0 + list[0] + list[1] + ...
Sum(s) ==
    LET RECURSIVE S(_)
        S(i) == IF i = 0 THEN Int2F(0) ELSE FAdd(S(i - 1), s[i])
    IN  S(Len(s))

\* variant: the sum, not divided by the count
Mean_sum(s) == Sum(s)

\* sum(list) / len(list), for a list that is not empty
Mean(s) == FDiv(Sum(s), Int2F(Len(s)))

\* variant: an empty list reduces to nan and nothing is raised
Reduce_nan(m) ==
    [err |-> IF ~m.set THEN "AttributeError" ELSE "none",
     mean |-> IF m.set /\ Len(m.vals) > 0 THEN Mean(m.vals) ELSE NaN]

\* sum(self.<list>) / len(self.<list>): the mean, or the exception raised
Reduce(m) ==
    [err |-> IF ~m.set THEN "AttributeError"
             ELSE IF Len(m.vals) = 0 THEN "ZeroDivisionError"
             ELSE "none",
     mean |-> IF m.set /\ Len(m.vals) > 0 THEN Mean(m.vals) ELSE NaN]

\* a dictionary entry, present or not
Entry(present, key, value) == IF present THEN key :> value ELSE <<>>

\* self.hparams.noam_annealing.current_lr, a function of n_steps
current_lr == Frac(1, n_steps + 1)

\* variant: a checkpoint is saved at the end of TEST as well
SavesCheckpoint_test(stage) == stage \in {"VALID", "TEST"}

\* the branch that calls self.checkpointer.save_and_keep_only
SavesCheckpoint(stage) == stage = "VALID"

on_stage_end(stage, stage_loss, epoch, stage_adv_loss, stage_adv_loss_target) ==
    LET given == ("loss" :> stage_loss)
                 @@ Entry(stage_adv_loss.given, "adv_loss", stage_adv_loss.v)
                 @@ Entry(stage_adv_loss_target.given, "adv_loss target",
                          stage_adv_loss_target.v)
        r1 == Reduce(acc_metric)
        r2 == Reduce(adv_acc_metric)
        r3 == Reduce(adv_acc_metric_target)
        raised ==
            IF stage = "TRAIN" THEN "none"
            ELSE IF r1.err # "none" THEN r1.err
            ELSE IF stage_adv_loss.given /\ r2.err # "none" THEN r2.err
            ELSE IF stage_adv_loss_target.given /\ r3.err # "none" THEN r3.err
            ELSE IF stage = "VALID" /\ ~train_stats.set THEN "AttributeError"
            ELSE "none"
        stage_stats ==
            IF stage = "TRAIN" THEN given
            ELSE given
                 @@ ("acc" :> r1.mean)
                 @@ Entry(stage_adv_loss.given, "adv acc", r2.mean)
                 @@ Entry(stage_adv_loss_target.given, "adv acc target", r3.mean)
        epoch_stats == [epoch |-> epoch, lr |-> current_lr, steps |-> n_steps,
                        optimizer |-> "optimizer.__class__.__name__"]
    IN  /\ train_stats' = IF stage = "TRAIN"
                          THEN [set |-> TRUE, stats |-> stage_stats]
                          ELSE train_stats
        /\ last' =
            [NoOp EXCEPT
                !.op = "on_stage_end",
                !.stage = stage,
                !.given_adv = stage_adv_loss.given,
                !.given_target = stage_adv_loss_target.given,
                !.raised = raised,
                !.logged =
                    IF raised # "none" THEN <<>>
                    ELSE IF stage = "VALID"
                    THEN <<[stats_meta |-> epoch_stats,
                            train_stats |-> train_stats.stats,
                            stats |-> stage_stats]>>
                    ELSE IF stage = "TEST"
                    THEN <<[stats_meta |-> [stage |-> "TEST"],
                            train_stats |-> <<>>,
                            stats |-> stage_stats]>>
                    ELSE <<>>,
                !.saved =
                    IF raised = "none" /\ SavesCheckpoint(stage)
                    THEN <<[meta |-> [acc |-> stage_stats["acc"], epoch |-> epoch],
                            max_keys |-> {"acc"}]>>
                    ELSE <<>>]
        /\ UNCHANGED <<filterVars, fwdVars, wav2vec2_out, metricVars, pushed, fitVars>>

\* the losses the framework's loops hand to on_stage_end
StageLoss == Int2F(1)
StageAdvLoss == Int2F(2)
StageAdvLossTarget == Int2F(3)

OnStageEnd ==
    \E stage \in Stages, epoch \in 1 .. MaxEpoch,
       given_adv \in BOOLEAN, given_target \in BOOLEAN :
        /\ stage \in {"TRAIN", "ATTACK"} => (given_adv <=> given_target)
        /\ stage # "VALID" => epoch = 1
        /\ on_stage_end(stage, StageLoss, epoch,
                        IF given_adv THEN Some(StageAdvLoss) ELSE None,
                        IF given_target THEN Some(StageAdvLossTarget) ELSE None)

Init ==
    /\ InitNoFilter
    /\ wavs = Wav(1)
    /\ args = <<>>
    /\ out = NoOut
    /\ prior = NoPrior
    /\ mode = "none"
    /\ wav2vec2_out = ModuleOutputs
    /\ acc_metric = Missing
    /\ adv_acc_metric = Missing
    /\ adv_acc_metric_target = Missing
    /\ train_stats = NoStats
    /\ pushed = NothingPushed
    /\ last = NoOp
    /\ step = 0
    /\ n_steps = 0
    /\ opt_steps = 0
    /\ grad_acc = 0
    /\ calls = <<>>
    /\ auto_mix_prec = FALSE
    /\ gradient_accumulation = 1

Next == OnStageStart \/ EvaluateBatch \/ OnStageEnd
Spec == Init /\ [][Next]_vars

-----------------------------------------------------------------------------
(* W2VPretrain.fit_batch and fit_batch_adversarial.  The training loop     *)
(* advances self.step before each call.  optimizer.step and scaler.step    *)
(* are the parameter update, noam_annealing the annealing step.            *)

\* variant: every micro-batch is a boundary
AccumulationBoundary_always(s, n) == TRUE

\* if self.step % self.hparams.gradient_accumulation == 0
AccumulationBoundary(s, n) == s % n = 0

\* the calls before the gate: scaler.scale(loss / n).backward() under mixed
\* precision, (loss / n).backward() otherwise
BackwardCalls(amp) ==
    IF amp THEN <<"scaler.scale", "backward">> ELSE <<"backward">>

\* the calls behind the gate, in the order they are made
BoundaryCalls(amp) ==
    IF amp
    THEN <<"check_gradients", "scaler.unscale_", "scaler.step",
           "scaler.update", "optimizer.zero_grad", "noam_annealing">>
    ELSE <<"check_gradients", "optimizer.step", "optimizer.zero_grad",
           "noam_annealing">>

\* predictions, _ = self.compute_forward_adversarial(batch, sb.Stage.TRAIN):
\* the forward computation on the attacked batch, which carries the
\* quantized representation saved before the attack
compute_forward_adversarial(m, stage) ==
    compute_forward(wav2vec2_out[TRUE][m].mask, wav2vec2_out[TRUE][m].out, stage)

\* the body shared by fit_batch and fit_batch_adversarial
FitStep(name, predictions) ==
    LET r == compute_objectives(predictions, "TRAIN", FALSE, FALSE)
        boundary == AccumulationBoundary(step + 1, gradient_accumulation)
    IN  /\ step' = step + 1
        /\ acc_metric' = r.acc
        /\ adv_acc_metric' = r.adv
        /\ adv_acc_metric_target' = r.target
        /\ calls' = IF boundary
                    THEN BackwardCalls(auto_mix_prec) \o BoundaryCalls(auto_mix_prec)
                    ELSE BackwardCalls(auto_mix_prec)
        /\ opt_steps' = IF boundary THEN opt_steps + 1 ELSE opt_steps
        /\ grad_acc' = IF boundary THEN 0 ELSE grad_acc + 1
        /\ n_steps' = IF boundary THEN n_steps + 1 ELSE n_steps
        /\ last' = [NoOp EXCEPT !.op = name, !.stage = "TRAIN",
                                !.raised = r.raised, !.ret = r.loss]
        /\ UNCHANGED <<filterVars, fwdVars, wav2vec2_out, train_stats, pushed,
                       auto_mix_prec, gradient_accumulation>>

FitBatch ==
    /\ step < MaxStep
    /\ \E m \in 0 .. MaxEvalDraw :
        FitStep("fit_batch",
                compute_forward(wav2vec2_out[FALSE][m].mask,
                                wav2vec2_out[FALSE][m].out, "TRAIN"))

\* under mixed precision the forward computation is the adversarial one,
\* otherwise it is compute_forward
FitBatchAdversarial ==
    /\ step < MaxStep
    /\ \E m \in 0 .. MaxEvalDraw :
        FitStep("fit_batch_adversarial",
                IF auto_mix_prec
                THEN compute_forward_adversarial(m, "TRAIN")
                ELSE compute_forward(wav2vec2_out[FALSE][m].mask,
                                     wav2vec2_out[FALSE][m].out, "TRAIN"))

InitFit ==
    /\ InitNoFilter
    /\ wavs = Wav(1)
    /\ args = <<>>
    /\ out = NoOut
    /\ prior = NoPrior
    /\ mode = "none"
    /\ wav2vec2_out = ModuleOutputs
    /\ acc_metric = Missing
    /\ adv_acc_metric = Missing
    /\ adv_acc_metric_target = Missing
    /\ train_stats = NoStats
    /\ pushed = NothingPushed
    /\ last = NoOp
    /\ step = 0
    /\ n_steps = 0
    /\ opt_steps = 0
    /\ grad_acc = 0
    /\ calls = <<>>
    /\ auto_mix_prec \in BOOLEAN
    /\ gradient_accumulation \in 1 .. MaxAccumulation

NextFit == FitBatch \/ FitBatchAdversarial
SpecFit == InitFit /\ [][NextFit]_vars

-----------------------------------------------------------------------------
(* ASNRWiener, the noise-reduction filter.  A sample is a fraction, NaN,   *)
(* or one of the two infinities below.  audlib's asnr is a library: what   *)
(* it returns for an item is drawn from AsnrOutputs, a family of outputs   *)
(* one sample shorter than the item, as long, or one sample longer, whose  *)
(* first and last samples may be NaN or infinite.                          *)

PosInf == <<1, 0>>
MinusInf == <<-1, 0>>

np_isnan(v) == v = NaN
np_isfinite(v) == v[2] # 0

\* IEEE addition: nan absorbs, inf + -inf is nan, an infinity absorbs
np_add(a, b) ==
    IF np_isnan(a) \/ np_isnan(b) THEN NaN
    ELSE IF ~np_isfinite(a) /\ ~np_isfinite(b) THEN (IF a = b THEN a ELSE NaN)
    ELSE IF ~np_isfinite(a) THEN a
    ELSE IF ~np_isfinite(b) THEN b
    ELSE FAdd(a, b)

np_mean(s) ==
    LET RECURSIVE S(_)
        S(i) == IF i = 0 THEN Int2F(0) ELSE np_add(S(i - 1), s[i])
        total == S(Len(s))
    IN  IF np_isfinite(total) THEN FDiv(total, Int2F(Len(s))) ELSE total

\* np.pad(filtered_output, mode="mean", pad_width=((0, n))), output not empty
np_pad_mean(s, n) == s \o [j \in 1 .. n |-> np_mean(s)]

\* np.isnan(filtered_output).any()
AnyNaN(s) == \E j \in 1 .. Len(s) : np_isnan(s[j])

\* the batches the filter is called on: batch_size items of num_samples samples
FilterInputs ==
    {[b \in Batch |-> [j \in 1 .. num_samples |->
        Int2F(Digit(id, NumWavVals, b * num_samples + j - 1))]] :
     id \in 0 .. MaxWavId}

SampleKinds == {"finite", "nan", "inf", "-inf"}

SampleOf(kind, j) ==
    CASE kind = "nan" -> NaN
      [] kind = "inf" -> PosInf
      [] kind = "-inf" -> MinusInf
      [] OTHER -> Frac(2 * j + 1, 2)

\* what the first and the last sample of an output of asnr may be
EdgeKinds ==
    {[first |-> "finite", last |-> "finite"],
     [first |-> "nan", last |-> "finite"],
     [first |-> "finite", last |-> "nan"],
     [first |-> "inf", last |-> "finite"],
     [first |-> "finite", last |-> "inf"],
     [first |-> "-inf", last |-> "finite"],
     [first |-> "inf", last |-> "-inf"]}

AsnrOutput(len, e) ==
    [j \in 1 .. len |->
        IF j = 1 /\ e.first # "finite" THEN SampleOf(e.first, j)
        ELSE IF j = len /\ e.last # "finite" THEN SampleOf(e.last, j)
        ELSE SampleOf("finite", j)]

AsnrOutputs ==
    {AsnrOutput(len, e) :
        len \in {l \in (num_samples - 1) .. (num_samples + 1) : l > 0},
        e \in EdgeKinds}

\* lines 35-38: the output padded with its mean, or truncated, to n samples
FitLength(filtered, n) ==
    IF Len(filtered) < n THEN np_pad_mean(filtered, n - Len(filtered))
    ELSE IF Len(filtered) > n THEN SubSeq(filtered, 1, n)
    ELSE filtered

\* line 32: the name ART_NUMPY_DTYPE is bound nowhere in the module; the
\* expression that uses it is evaluated when gaussian_sigma is not zero
NoiseRaises(self) == ~self.high_freq /\ self.gaussian_sigma # 0

\* ASNRWiener.__call__(x) with asnr returning outs[i] for item i
ASNRWiener_call(self, xs, outs) ==
    IF NoiseRaises(self)
    THEN [raised |-> "NameError", x |-> xs, ret |-> <<>>]
    ELSE LET y == [i \in Batch |->
                     LET filtered == FitLength(outs[i], Len(xs[i]))
                     IN  IF ~AnyNaN(filtered) THEN filtered ELSE xs[i]]
         IN  [raised |-> "none", x |-> y, ret |-> y]

InitFilter ==
    /\ asnr_filter \in [high_freq : BOOLEAN, gaussian_sigma : 0 .. 1]
    /\ x_tensor \in FilterInputs
    /\ filtered_output \in [Batch -> AsnrOutputs]
    /\ filter_call = NoFilterCall
    /\ wavs = Wav(0)
    /\ args = <<>>
    /\ out = NoOut
    /\ prior = NoPrior
    /\ mode = "none"
    /\ InitProcedure
    /\ auto_mix_prec = FALSE
    /\ gradient_accumulation = 1

FilterCall ==
    /\ ~filter_call.done
    /\ \E r \in {ASNRWiener_call(asnr_filter, x_tensor, filtered_output)} :
        /\ x_tensor' = r.x
        /\ filter_call' = [done |-> TRUE, x |-> x_tensor,
                           raised |-> r.raised, ret |-> r.ret]
    /\ UNCHANGED <<asnr_filter, filtered_output, fwdVars, brainVars>>

NextFilter == FilterCall
SpecFilter == InitFilter /\ [][NextFilter]_vars

-----------------------------------------------------------------------------
(* The equivalence of the two ways to call forward (under SpecEquiv)       *)

SameOutputs ==
    /\ out.projected_states = prior.out.projected_states
    /\ out.projected_quantized_states = prior.out.projected_quantized_states
    /\ out.loss = prior.out.loss

\* C1 as stated: the call that supplies the captured pair returns the same
\* transformer_features, quantized_features and loss as the call that
\* computed it.
C1_Original == mode = "precomputed" => SameOutputs

SameDraws ==
    /\ args.mask_time_indices = prior.call.mask_time_indices
    /\ args.sampled_negative_indices = prior.call.sampled_negative_indices
    /\ args.drop = prior.call.drop

\* C1 amended: the quantized features and the diversity statistic are the
\* captured ones on every such call; the transformer features and the loss
\* are the same when the call draws the same mask, the same negatives and
\* the same dropout as the call that was captured.
C1_Equivalence ==
    mode = "precomputed" =>
        /\ out.projected_quantized_states = prior.out.projected_quantized_states
        /\ out.codevector_perplexity = prior.out.codevector_perplexity
        /\ SameDraws => SameOutputs /\ out.contrastive_loss = prior.out.contrastive_loss

\* a second call with the same draws, masked steps and a loss that is not 0
C1_Witness ==
    /\ mode = "precomputed"
    /\ SameDraws
    /\ MaskSum(args.mask_time_indices) > 0
    /\ out.loss.ce # ZeroLoss
    /\ ~IsNaN(out.loss.lin)

-----------------------------------------------------------------------------
(* Properties of the training procedure (under Spec and SpecFit)           *)

\* the module output and mask that the latest compute_forward worked on
LastOut == wav2vec2_out[last.has_qr][last.draw].out
LastMask == wav2vec2_out[last.has_qr][last.draw].mask

EvalStage(s) == s = "VALID" \/ s = "TEST"

\* C2: compute_forward followed by compute_objectives returns the raw
\* contrastive loss in ATTACK and contrastive + weight * diversity in TRAIN,
\* VALID and TEST; TRAIN and ATTACK calls leave the three accumulators as
\* they were, VALID and TEST calls add one accuracy value, the cosine
\* similarity averaged over the masked positions.
C2_LossSelection ==
    [][last'.op = "compute_objectives" =>
        LET o == LastOut'
            clean == ~EvalStage(last'.stage)
        IN  /\ last'.stage = "ATTACK" =>
                /\ last'.raised = "none"
                /\ last'.ret = [ce |-> o.contrastive_loss, lin |-> Int2F(0)]
            /\ last'.stage # "ATTACK" /\ last'.raised = "none" =>
                last'.ret = [ce |-> o.contrastive_loss,
                             lin |-> FMul(diversity_loss_weight, o.diversity_loss)]
            /\ last'.stage = "TRAIN" => last'.raised = "none"
            /\ clean => UNCHANGED metricVars
            /\ EvalStage(last'.stage) /\ acc_metric.set =>
                /\ last'.raised = "none"
                /\ NumPushed' = NumPushed + 1
                /\ \E m \in {acc_metric', adv_acc_metric', adv_acc_metric_target'} :
                    /\ Len(m.vals) > 0
                    /\ m.vals[Len(m.vals)] = Accuracy(o, LastMask')
    ]_vars

\* an ATTACK call whose returned loss is not the composite loss
C2_Witness ==
    /\ last.op = "compute_objectives"
    /\ last.stage = "ATTACK"
    /\ last.ret.ce # ZeroLoss
    /\ last.ret # LastOut.loss
    /\ NumPushed > 0

\* C3: with accumulation factor N, after every sequence of fit_batch and
\* fit_batch_adversarial calls the parameter updates and the annealing steps
\* both number (micro-batches \div N) and the gradients hold
\* (micro-batches % N) backward passes; a call on an Nth micro-batch makes
\* one update, one zero_grad and one annealing step, any other call makes one
\* backward pass and none of the three.
C3_AccumulationGate ==
    LET Count(c) == Cardinality({i \in DOMAIN calls : calls[i] = c})
        nth == step % gradient_accumulation = 0
    IN  /\ opt_steps = step \div gradient_accumulation
        /\ n_steps = step \div gradient_accumulation
        /\ grad_acc = step % gradient_accumulation
        /\ last.op \in {"fit_batch", "fit_batch_adversarial"} =>
            /\ Count("backward") = 1
            /\ Count("optimizer.step") + Count("scaler.step")
                = (IF nth THEN 1 ELSE 0)
            /\ Count("optimizer.zero_grad") = (IF nth THEN 1 ELSE 0)
            /\ Count("noam_annealing") = (IF nth THEN 1 ELSE 0)

\* the fifth micro-batch with N = 3: one update made, two passes accumulated
C3_Witness ==
    /\ gradient_accumulation = 3
    /\ step = 5
    /\ opt_steps = 1
    /\ grad_acc = 2
    /\ last.op = "fit_batch_adversarial"

\* C4: a VALID or TEST compute_objectives call, made once on_stage_start has
\* created the accumulators, appends one accuracy value to one accumulator
\* and leaves the other two unchanged: the clean one when not marked
\* adversarial, the untargeted one when adversarial and not targeted, the
\* targeted one when adversarial and targeted.
C4_AccumulatorFrame ==
    [][last'.op = "compute_objectives" /\ EvalStage(last'.stage)
            /\ acc_metric.set =>
        LET x == Accuracy(LastOut', LastMask')
        IN  /\ last'.raised = "none"
            /\ ~last'.adv =>
                /\ acc_metric'.vals = Append(acc_metric.vals, x)
                /\ UNCHANGED <<adv_acc_metric, adv_acc_metric_target>>
            /\ last'.adv /\ ~last'.targeted =>
                /\ adv_acc_metric'.vals = Append(adv_acc_metric.vals, x)
                /\ UNCHANGED <<acc_metric, adv_acc_metric_target>>
            /\ last'.adv /\ last'.targeted =>
                /\ adv_acc_metric_target'.vals
                    = Append(adv_acc_metric_target.vals, x)
                /\ UNCHANGED <<acc_metric, adv_acc_metric>>
    ]_vars

\* a targeted adversarial TEST call after a clean one
C4_Witness ==
    /\ last.op = "compute_objectives"
    /\ last.stage = "TEST"
    /\ last.adv
    /\ last.targeted
    /\ Len(adv_acc_metric_target.vals) = 1
    /\ Len(acc_metric.vals) = 1
    /\ Len(adv_acc_metric.vals) = 0

\* the mean of a list: its sum over its length
MeanOf(s) ==
    LET RECURSIVE T(_)
        T(i) == IF i > Len(s) THEN Int2F(0) ELSE FAdd(s[i], T(i + 1))
    IN  FDiv(T(1), Int2F(Len(s)))

\* the stats the latest on_stage_end handed to the logger
Reported == last.logged[1].stats
HasKey(d, k) == k \in DOMAIN d

\* C5: on_stage_start(VALID or TEST) leaves the three accumulators empty;
\* a start of any other stage leaves them as they are, so at every moment
\* each accumulator exists iff a VALID/TEST start has run and holds exactly
\* the values pushed since the latest such start; what a stage end reports
\* is the mean of those values.
C5_StageStartResets ==
    /\ last.op = "on_stage_start" /\ EvalStage(last.stage) =>
        /\ acc_metric = EmptyList
        /\ adv_acc_metric = EmptyList
        /\ adv_acc_metric_target = EmptyList
    /\ acc_metric = [set |-> pushed.started, vals |-> pushed.acc]
    /\ adv_acc_metric = [set |-> pushed.started, vals |-> pushed.adv]
    /\ adv_acc_metric_target = [set |-> pushed.started, vals |-> pushed.target]
    /\ last.op = "on_stage_end" /\ last.logged # <<>> =>
        /\ Reported["acc"] = MeanOf(pushed.acc)
        /\ HasKey(Reported, "adv acc") => Reported["adv acc"] = MeanOf(pushed.adv)
        /\ HasKey(Reported, "adv acc target") =>
            Reported["adv acc target"] = MeanOf(pushed.target)

\* a TRAIN start that found two pushed values and left them in place
C5_Witness ==
    /\ last.op = "on_stage_start"
    /\ last.stage = "TRAIN"
    /\ pushed.started
    /\ Len(acc_metric.vals) = 1
    /\ Len(adv_acc_metric.vals) = 1

StageEndReported ==
    last.op = "on_stage_end" /\ EvalStage(last.stage) /\ last.logged # <<>>

\* C6 as stated: at a VALID or TEST stage end every accumulator that holds a
\* value is reduced to its mean and the mean is in the reported stats.
C6_Original ==
    StageEndReported =>
        /\ Len(acc_metric.vals) > 0 =>
            /\ HasKey(Reported, "acc")
            /\ Reported["acc"] = MeanOf(acc_metric.vals)
        /\ Len(adv_acc_metric.vals) > 0 =>
            /\ HasKey(Reported, "adv acc")
            /\ Reported["adv acc"] = MeanOf(adv_acc_metric.vals)
        /\ Len(adv_acc_metric_target.vals) > 0 =>
            /\ HasKey(Reported, "adv acc target")
            /\ Reported["adv acc target"] = MeanOf(adv_acc_metric_target.vals)

\* C6 amended: the clean accumulator is always reduced; the untargeted
\* adversarial one is reduced exactly when stage_adv_loss is given and the
\* targeted one exactly when stage_adv_loss_target is given, whatever they
\* hold; each reduced accumulator's mean (sum over count, [0.2, 0.4, 0.6]
\* gives 0.4) is in the reported stats.
C6_MeanReduction ==
    /\ Mean(<<Frac(1, 5), Frac(2, 5), Frac(3, 5)>>) = Frac(2, 5)
    /\ StageEndReported =>
        /\ HasKey(Reported, "acc")
        /\ Reported["acc"] = MeanOf(acc_metric.vals)
        /\ HasKey(Reported, "adv acc") <=> last.given_adv
        /\ last.given_adv => Reported["adv acc"] = MeanOf(adv_acc_metric.vals)
        /\ HasKey(Reported, "adv acc target") <=> last.given_target
        /\ last.given_target =>
            Reported["adv acc target"] = MeanOf(adv_acc_metric_target.vals)

\* a VALID end that reports the clean and the untargeted mean
C6_Witness ==
    /\ StageEndReported
    /\ last.stage = "VALID"
    /\ last.given_adv
    /\ Len(acc_metric.vals) = 1
    /\ Len(adv_acc_metric.vals) = 1
    /\ ~IsNaN(Reported["acc"])
    /\ ~IsNaN(Reported["adv acc"])

\* the accumulators the latest on_stage_end reduces
ReducedLists ==
    {acc_metric}
        \cup (IF last.given_adv THEN {adv_acc_metric} ELSE {})
        \cup (IF last.given_target THEN {adv_acc_metric_target} ELSE {})
PushedIntoReduced ==
    /\ pushed.started
    /\ Len(pushed.acc) > 0
    /\ last.given_adv => Len(pushed.adv) > 0
    /\ last.given_target => Len(pushed.target) > 0

\* C7: a VALID or TEST stage end that finds an accumulator it reduces empty
\* raises ZeroDivisionError, and nothing is logged and no checkpoint is
\* saved by that call; it does not raise it when on_stage_start has run and
\* a value was pushed into each accumulator it reduces.
C7_EmptyAccumulator ==
    last.op = "on_stage_end" /\ EvalStage(last.stage) =>
        /\ acc_metric.set /\ (\E m \in ReducedLists : Len(m.vals) = 0) =>
            /\ last.raised = "ZeroDivisionError"
            /\ last.logged = <<>>
            /\ last.saved = <<>>
        /\ PushedIntoReduced => last.raised # "ZeroDivisionError"
        /\ last.raised # "none" => last.logged = <<>> /\ last.saved = <<>>

\* a VALID end with train stats and clean values, whose untargeted list is
\* empty
C7_Witness ==
    /\ last.op = "on_stage_end"
    /\ last.stage = "VALID"
    /\ train_stats.set
    /\ Len(acc_metric.vals) > 0
    /\ last.given_adv
    /\ adv_acc_metric = EmptyList
    /\ last.raised = "ZeroDivisionError"

-----------------------------------------------------------------------------
(* Properties of the contrastive-loss construction (under SpecLoss)        *)

LossCall == mode = "direct" /\ args.has_negatives

\* the vector that negative slot k of position (b, t) points to, read from
\* the returned quantized features through the flat index
PointedVector(k, b, t) ==
    LET i == args.sampled_negative_indices[b][t][k]
    IN  out.projected_quantized_states[i \div sequence_length][i % sequence_length]

SameVector(u, v) == \A h \in Hid : u[h] = v[h]

\* C8: the logit of negative k at (b, t) is -inf exactly when the k-th
\* gathered negative vector at (b, t) equals, element by element, the
\* positive quantized vector at (b, t); every other logit, and the positive
\* slot 0, keep the value computed in step 4.
C8_DegeneracyMasking ==
    LossCall =>
        \A b \in Batch, t \in Time :
            /\ MaskedLogits(args)[0][b][t] = RawLogits(args)[0][b][t]
            /\ MaskedLogits(args)[0][b][t] # NegInf
            /\ \A k \in Negs :
                LET same == SameVector(PointedVector(k, b, t),
                                       out.projected_quantized_states[b][t])
                IN  /\ (MaskedLogits(args)[k + 1][b][t] = NegInf) <=> same
                    /\ ~same => MaskedLogits(args)[k + 1][b][t]
                                    = RawLogits(args)[k + 1][b][t]

\* a call where one position's negative is a different step holding the same
\* codevector (masked), and another position's negative differs (kept)
C8_Witness ==
    /\ LossCall
    /\ \E b \in Batch, t \in Time, k \in Negs :
        /\ args.sampled_negative_indices[b][t][k] # FlatIndex(b, t)
        /\ MaskedLogits(args)[k + 1][b][t] = NegInf
    /\ \E b \in Batch, t \in Time, k \in Negs :
        MaskedLogits(args)[k + 1][b][t] # NegInf

\* the cross-entropy of the masked positions, position by position
MaskedPositionsLoss ==
    LET L == MaskedLogits(args)
        RowSum(b, t) ==
            LET RECURSIVE S(_)
                S(k) == IF k < 0 THEN 0 ELSE ExpLogit(L[k][b][t]) + S(k - 1)
            IN  S(num_negatives)
        RECURSIVE P(_)
        P(i) == IF i < 0 THEN ZeroLoss
                ELSE LET b == i \div sequence_length
                         t == i % sequence_length
                     IN  IF args.mask_time_indices[b][t] = 1
                         THEN FMul(Frac(RowSum(b, t), ExpLogit(L[0][b][t])), P(i - 1))
                         ELSE P(i - 1)
    IN  P(NumRows - 1)

\* C9: the flattened row t * batch_size + b holds the logits of (b, t) and
\* its target is 0 where (b, t) is masked and the ignore index where it is
\* not; the contrastive loss is the summed cross-entropy of the masked
\* positions alone, and it is 0 when no position is masked.
C9_UnmaskedExclusion ==
    LossCall =>
        /\ \A b \in Batch, t \in Time :
            LET r == t * batch_size + b
            IN  /\ \A k \in 0 .. num_negatives :
                    FlattenLogits(MaskedLogits(args))[r][k] = MaskedLogits(args)[k][b][t]
                /\ Target(args.mask_time_indices)[r]
                    = IF args.mask_time_indices[b][t] = 1 THEN 0 ELSE IgnoreIndex
        /\ out.contrastive_loss = MaskedPositionsLoss
        /\ ~IsNaN(out.contrastive_loss)
        /\ MaskSum(args.mask_time_indices) = 0 => out.contrastive_loss = ZeroLoss

\* a call with (0, 1) masked and (1, 0) not, and a nonzero contrastive loss
C9_Witness ==
    /\ LossCall
    /\ args.mask_time_indices[0][1] = 1
    /\ args.mask_time_indices[1][0] = 0
    /\ out.contrastive_loss # ZeroLoss

\* the diversity term for statistic p under the call's mask
DiversityTerm(p) == DiversityLoss(Int2F(p), args.mask_time_indices)

DiversityFormula ==
    LossCall /\ ~IsNaN(out.codevector_perplexity) =>
        /\ out.diversity_loss
            = Frac((num_codevectors * out.codevector_perplexity[2]
                        - out.codevector_perplexity[1])
                       * MaskSum(args.mask_time_indices),
                   num_codevectors * out.codevector_perplexity[2])
        /\ out.codevector_perplexity = Int2F(num_codevectors)
            => out.diversity_loss = Int2F(0)

\* C10 as stated: the term is (num_codevectors - statistic) / num_codevectors
\* times the number of masked positions, is 0 at statistic = num_codevectors,
\* and strictly decreases as the statistic increases.
C10_Original ==
    /\ DiversityFormula
    /\ LossCall =>
        \A p1, p2 \in 0 .. num_codevectors :
            p1 < p2 => FLess(DiversityTerm(p2), DiversityTerm(p1))

\* C10 amended: the decrease is strict when at least one position is
\* masked; with no masked position the term is 0 for every statistic.
C10_DiversityMonotone ==
    /\ DiversityFormula
    /\ LossCall =>
        \A p1, p2 \in 0 .. num_codevectors :
            p1 < p2 =>
                IF MaskSum(args.mask_time_indices) > 0
                THEN FLess(DiversityTerm(p2), DiversityTerm(p1))
                ELSE DiversityTerm(p1) = Int2F(0) /\ DiversityTerm(p2) = Int2F(0)

\* a call with a supplied statistic below num_codevectors and masked steps
C10_Witness ==
    /\ LossCall
    /\ args.has_qr
    /\ MaskSum(args.mask_time_indices) > 1
    /\ FLess(out.codevector_perplexity, Int2F(num_codevectors))
    /\ FLess(Int2F(0), out.diversity_loss)

-----------------------------------------------------------------------------
(* The filter's handling of non-finite outputs (under SpecFilter)          *)

\* the output of asnr for item i holds a NaN or an infinity
NonFinite(i) ==
    \E j \in 1 .. Len(filtered_output[i]) : ~np_isfinite(filtered_output[i][j])

\* the returned batch has the shape of the batch that was passed
SameShape(ret, xs) ==
    /\ DOMAIN ret = DOMAIN xs
    /\ \A i \in DOMAIN xs : Len(ret[i]) = Len(xs[i])

(* C11: once the filter has been called on a batch, the call has returned  *)
(* a batch of the input's shape in which every item whose output of asnr   *)
(* holds a NaN or an infinity is the unfiltered item, and every other item *)
(* is the output of asnr padded or truncated to the item's length.         *)
C11_Original ==
    filter_call.done =>
        /\ filter_call.raised = "none"
        /\ SameShape(filter_call.ret, filter_call.x)
        /\ \A i \in Batch :
              filter_call.ret[i] =
                  IF NonFinite(i) THEN filter_call.x[i]
                  ELSE FitLength(filtered_output[i], Len(filter_call.x[i]))

-----------------------------------------------------------------------------
(* The order of the calls of an update under mixed precision (SpecFit)     *)

\* the gradients are still multiplied by the loss scale when the call at
\* position k runs: they were produced by the backward pass of a scaled
\* loss and scaler.unscale_ has not been called before position k
GradientsScaledAt(k) ==
    /\ \E i \in 1 .. (k - 1) : calls[i] = "scaler.scale"
    /\ \A i \in 1 .. (k - 1) : calls[i] # "scaler.unscale_"

(* C12: under mixed precision, in every fit_batch or fit_batch_adversarial *)
(* that updates the parameters, the gradients have been unscaled when the  *)
(* gradient check runs and when the optimizer step runs.                   *)
C12_Original ==
    (auto_mix_prec /\ last.op \in {"fit_batch", "fit_batch_adversarial"}) =>
        \A k \in 1 .. Len(calls) :
            calls[k] \in {"check_gradients", "scaler.step"} =>
                ~GradientsScaledAt(k)

-----------------------------------------------------------------------------
(* What a stage end stores, logs and saves (under Spec)                    *)

\* the stats on_stage_end builds from the losses it is given
GivenStats(l) ==
    ("loss" :> StageLoss)
        @@ Entry(l.given_adv, "adv_loss", StageAdvLoss)
        @@ Entry(l.given_target, "adv_loss target", StageAdvLossTarget)

\* every accumulator the call l reduces exists and holds a value
Reducible(l) ==
    /\ acc_metric.set /\ Len(acc_metric.vals) > 0
    /\ l.given_adv => adv_acc_metric.set /\ Len(adv_acc_metric.vals) > 0
    /\ l.given_target =>
        adv_acc_metric_target.set /\ Len(adv_acc_metric_target.vals) > 0

\* the effects of a step that is a stage end; `total` says whether a VALID
\* or TEST end is taken to log whatever the accumulators hold
StageEndEffects(total) ==
    /\ train_stats' # train_stats =>
        last'.op = "on_stage_end" /\ last'.stage = "TRAIN"
    /\ last'.op = "on_stage_end" =>
        /\ last'.stage = "TRAIN" =>
            /\ train_stats' = [set |-> TRUE, stats |-> GivenStats(last')]
            /\ last'.raised = "none"
            /\ last'.logged = <<>>
            /\ last'.saved = <<>>
            /\ UNCHANGED metricVars
        /\ last'.stage = "VALID" /\ train_stats.set
                /\ (total \/ Reducible(last')) =>
            /\ Len(last'.logged) = 1
            /\ last'.logged[1].train_stats = train_stats.stats
            /\ last'.logged[1].stats["acc"] = MeanOf(acc_metric.vals)
            /\ Len(last'.saved) = 1
            /\ last'.saved[1].meta.acc = MeanOf(acc_metric.vals)
            /\ last'.saved[1].max_keys = {"acc"}
        /\ last'.stage = "VALID" /\ ~train_stats.set =>
            /\ last'.raised # "none"
            /\ last'.logged = <<>>
            /\ last'.saved = <<>>
        /\ last'.stage = "TEST" => last'.saved = <<>>
        /\ last'.stage = "TEST" /\ (total \/ Reducible(last')) =>
            /\ Len(last'.logged) = 1
            /\ last'.logged[1].train_stats = <<>>
            /\ last'.logged[1].stats["acc"] = MeanOf(acc_metric.vals)

\* C13 as stated: a TRAIN end only stores its stats; every VALID end that
\* follows a TRAIN end logs once with the stored train stats and saves one
\* checkpoint keyed by the reduced clean accuracy; every TEST end logs its
\* stats alone and saves nothing; a VALID end with no stored train stats
\* fails without logging or saving.
C13_Original == [][StageEndEffects(TRUE)]_vars

(* C13 amended: train_stats changes only in on_stage_end(TRAIN), which     *)
(* stores the given stats and neither logs, saves nor reduces; a VALID end *)
(* with stored train stats whose reduced accumulators all hold a value     *)
(* logs once, with the stored train stats, and saves one checkpoint keyed  *)
(* by the mean clean accuracy; a TEST end never saves and, when its        *)
(* reduced accumulators all hold a value, logs its stats alone; a VALID    *)
(* end with no stored train stats fails without logging or saving.         *)
C13_StageEndEffects == [][StageEndEffects(FALSE)]_vars

\* a VALID end that logged the stats of a TRAIN end given both adversarial
\* losses and saved its checkpoint
C13_Witness ==
    /\ last.op = "on_stage_end"
    /\ last.stage = "VALID"
    /\ Len(last.logged) = 1
    /\ HasKey(last.logged[1].train_stats, "adv_loss target")
    /\ last.logged[1].train_stats = train_stats.stats
    /\ Len(last.saved) = 1
    /\ ~IsNaN(last.saved[1].meta.acc)

====
